---- MODULE Spec2Model ----
(***************************************************************************)
(* Model of the three export scripts of gntsldr/scripts:                   *)
(*   movies/get_movies.py, tvshows/get_tvshows.py and                       *)
(*   music/deezer/get_deezer_artist_ids.py.                                 *)
(* One run of one script is a behaviour: main reads its configuration,      *)
(* fetches from the upstream (one request, or the offset/limit loop of      *)
(* get_favorite_artists) and writes its export files.  The upstream, the    *)
(* network and the filesystem are the environment: every response and       *)
(* every write outcome is chosen nondeterministically.                      *)
(***************************************************************************)
EXTENDS Integers, Sequences, FiniteSets, TLC

VARIABLES
    script,        \* which script this run executes
    pc,            \* position of main: start, fetch, fetched, json_done, done
    env,           \* the environment variables the script reads
    upstream,      \* the collection the remote API holds, in upstream order
    requests,      \* log of the HTTP GETs issued, with the response each got
    items,         \* the list in memory: movies / shows / artists
    offset,        \* get_favorite_artists: the loop's offset
    fetch_status,  \* none, returned (fetcher returned a list), raised
    output_file,   \* deezer main: the path check_output_file chose
    files,         \* filesystem: file name -> [exists, rows]
    pre_files,     \* the filesystem before the run (never changes)
    out,           \* messages printed or logged, in order
    raised,        \* exception that ended main ("" when none)
    csv_calls,     \* invocations of a CSV writer: [filename, data, outcome]
    write_failed   \* a file write of this run raised

vars == <<script, pc, env, upstream, requests, items, offset, fetch_status,
          output_file, files, pre_files, out, raised, csv_calls, write_failed>>

----------------------------------------------------------------------------
(* Bounds of the model *)

MaxN == 55          \* most artists the Deezer upstream holds
MaxPages == 3       \* most page requests of one get_favorite_artists run
MaxItems == 3       \* most movies / shows the upstream holds
MaxIdLen == 2       \* longest DEEZER_USER_ID value
MaxPartial == 1     \* most rows that reach the disk before a write fails

----------------------------------------------------------------------------
(* Program constants *)

limit == 25

DEFAULT_OUTPUT_FILE == "deezer_artist_ids.csv"

MOVIE_JSON == "movie_list.json"

MOVIE_CSV == "movie_list.csv"

SHOW_JSON == "show_list.json"

SHOW_CSV == "show_list.csv"

CUSTOM_OUTPUT_FILE == "custom/artists.csv"

Scripts == {"movies", "tvshows", "deezer"}

FileNames == {MOVIE_JSON, MOVIE_CSV, SHOW_JSON, SHOW_CSV,
              DEFAULT_OUTPUT_FILE, CUSTOM_OUTPUT_FILE}

----------------------------------------------------------------------------
(* Python values *)

Min(a, b) == IF a < b THEN a ELSE b

\* os.getenv of a string-valued variable: None, or a string
UnsetStr == [isset |-> FALSE, val |-> ""]

StrEnv(s) == [isset |-> TRUE, val |-> s]

\* os.getenv("DEEZER_USER_ID"): None, or a string kept as its characters
UnsetId == [isset |-> FALSE, val |-> <<>>]

IdEnv(cs) == [isset |-> TRUE, val |-> cs]

Chars == {"1", "a"}

Digits == {"0", "1", "2", "3", "4", "5", "6", "7", "8", "9"}

\* truth value of an Optional[str]: None and "" are falsy
TruthyStr(v) == v.isset /\ v.val # ""

\* str.isnumeric(): at least one character and all of them numeric
isnumeric(cs) == Len(cs) > 0 /\ \A i \in 1..Len(cs) : cs[i] \in Digits

\* truth value of a list: the empty list is falsy
bool_list_always(l) == TRUE

bool_list(l) == Len(l) > 0

----------------------------------------------------------------------------
(* Titles are strings, kept as their code points; Python orders strings   *)
(* by code point, so "A" < "AB" < "a".                                     *)

Titles == {<<65>>, <<65, 66>>, <<97>>}

RECURSIVE StrLess(_, _)
StrLess(a, b) ==
    IF Len(a) = 0 THEN Len(b) > 0
    ELSE IF Len(b) = 0 THEN FALSE
    ELSE IF a[1] < b[1] THEN TRUE
    ELSE IF a[1] > b[1] THEN FALSE
    ELSE StrLess(Tail(a), Tail(b))

\* insert x into the sorted list s behind every element not greater than x
RECURSIVE insert_after_equal(_, _)
insert_after_equal(s, x) ==
    IF Len(s) = 0 THEN <<x>>
    ELSE IF StrLess(x.title, s[1].title) THEN <<x>> \o s
    ELSE <<s[1]>> \o insert_after_equal(Tail(s), x)

\* insert x in front of the first element not less than x (ties reversed)
RECURSIVE insert_before_equal(_, _)
insert_before_equal(s, x) ==
    IF Len(s) = 0 THEN <<x>>
    ELSE IF StrLess(s[1].title, x.title) THEN <<s[1]>> \o insert_before_equal(Tail(s), x)
    ELSE <<x>> \o s

RECURSIVE sorted_unstable(_)
sorted_unstable(l) ==
    IF Len(l) = 0 THEN <<>>
    ELSE insert_before_equal(sorted_unstable(SubSeq(l, 1, Len(l) - 1)), l[Len(l)])

\* sorted(l, key=lambda x: x["title"]): ascending by title, stable
RECURSIVE sorted_by_title(_)
sorted_by_title(l) ==
    IF Len(l) = 0 THEN <<>>
    ELSE insert_after_equal(sorted_by_title(SubSeq(l, 1, Len(l) - 1)), l[Len(l)])

----------------------------------------------------------------------------
(* Files *)

Absent == [exists |-> FALSE, rows |-> <<>>]

FileOf(rows) == [exists |-> TRUE, rows |-> rows]

MOVIE_HEADER == <<"Title", "Year", "TMDB ID">>

SHOW_HEADER == <<"Title", "Year", "TVDB ID">>

\* a good file left by an earlier run
OldFile(f) ==
    IF f = MOVIE_JSON THEN FileOf(<<[title |-> <<97>>, year |-> 1999, tmdbId |-> 99]>>)
    ELSE IF f = MOVIE_CSV THEN FileOf(<<MOVIE_HEADER, <<(<<97>>), 1999, 99>>>>)
    ELSE IF f = SHOW_JSON THEN FileOf(<<[title |-> <<97>>, year |-> 1999, tvdbId |-> 99]>>)
    ELSE IF f = SHOW_CSV THEN FileOf(<<SHOW_HEADER, <<(<<97>>), 1999, 99>>>>)
    ELSE FileOf(<<(<<99>>)>>)

\* outcomes of open(filename, "w") followed by the writes:
\*   ok                 the file holds exactly the rows
\*   FileNotFoundError  open fails (parent directory missing): file untouched
\*   PermissionError    open fails (path not writable): file untouched
\*   OSError            open truncated the file, a later write fails
WriteOutcomes == {"ok", "FileNotFoundError", "PermissionError", "OSError"}

\* the filesystem after open(f, "w") and writing rows with the given outcome;
\* k rows reached the disk when the outcome is OSError
WriteFile(fs, f, rows, outcome, k) ==
    IF outcome = "ok" THEN [fs EXCEPT ![f] = FileOf(rows)]
    ELSE IF outcome = "OSError" THEN [fs EXCEPT ![f] = FileOf(SubSeq(rows, 1, k))]
    ELSE fs

PartialLens(rows) == {0} \cup 1..Min(MaxPartial, Len(rows) - 1)

----------------------------------------------------------------------------
(* The upstream collections and the environment of a run *)

\* the movies / shows the manager holds: item k has id k, any title
MovieLists ==
    UNION {{[k \in 1..n |-> [title |-> t[k], year |-> 2000 + k, tmdbId |-> k]] :
              t \in [1..n -> Titles]} : n \in 0..MaxItems}

ShowLists ==
    UNION {{[k \in 1..n |-> [title |-> t[k], year |-> 2000 + k, tvdbId |-> k]] :
              t \in [1..n -> Titles]} : n \in 0..MaxItems}

\* the favorite artists Deezer holds: N artists with distinct ids
ArtistLists == {[k \in 1..n |-> [id |-> 100 + k]] : n \in 0..MaxN}

StrEnvValues == {UnsetStr, StrEnv(""), StrEnv("x")}

IdEnvValues ==
    {UnsetId} \cup UNION {{IdEnv(cs) : cs \in [1..n -> Chars]} : n \in 0..MaxIdLen}

OutputFileValues == {UnsetStr, StrEnv(""), StrEnv(CUSTOM_OUTPUT_FILE)}

\* check_output_file: OUTPUT_FILE, or the default when it is unset or empty
check_output_file(v) == IF ~TruthyStr(v) THEN DEFAULT_OUTPUT_FILE ELSE v.val

\* the files a script writes
Targets(s, e) ==
    IF s = "movies" THEN {MOVIE_JSON, MOVIE_CSV}
    ELSE IF s = "tvshows" THEN {SHOW_JSON, SHOW_CSV}
    ELSE {check_output_file(e.OUTPUT_FILE)}

\* before the run each target is absent or a good file of an earlier run
PreFiles(s, e) ==
    {[f \in FileNames |-> IF f \in old THEN OldFile(f) ELSE Absent] :
        old \in SUBSET Targets(s, e)}

Init ==
    /\ script \in Scripts
    /\ env \in IF script = "deezer"
               THEN [API_KEY : {UnsetStr}, BASE_URL : {UnsetStr},
                     DEEZER_USER_ID : IdEnvValues, OUTPUT_FILE : OutputFileValues]
               ELSE [API_KEY : StrEnvValues, BASE_URL : StrEnvValues,
                     DEEZER_USER_ID : {UnsetId}, OUTPUT_FILE : {UnsetStr}]
    /\ upstream \in IF script = "movies" THEN MovieLists
                    ELSE IF script = "tvshows" THEN ShowLists
                    ELSE ArtistLists
    /\ pre_files \in PreFiles(script, env)
    /\ files = pre_files
    /\ pc = "start"
    /\ requests = <<>>
    /\ items = <<>>
    /\ offset = 0
    /\ fetch_status = "none"
    /\ output_file = ""
    /\ out = <<>>
    /\ raised = ""
    /\ csv_calls = <<>>
    /\ write_failed = FALSE

----------------------------------------------------------------------------
(* music/deezer/get_deezer_artist_ids.py *)

\* check_deezer_user_id: the ValueError it raises, "" when it returns the id
check_deezer_user_id_any(v) ==
    IF ~v.isset \/ Len(v.val) = 0 THEN "DEEZER_USER_ID in .env file is required."
    ELSE ""

check_deezer_user_id(v) ==
    IF ~v.isset \/ Len(v.val) = 0 THEN "DEEZER_USER_ID in .env file is required."
    ELSE IF ~isnumeric(v.val) THEN "DEEZER_USER_ID must be numeric."
    ELSE ""

\* the page the upstream serves for index o and the request's limit
Page(o) == SubSeq(upstream, o + 1, Min(o + limit, Len(upstream)))

\* the "next" field of a response body: missing, "" or the next page's URL
NextKinds == {"absent", "empty", "url"}

Body(o, nk) ==
    IF nk = "absent" THEN [data |-> Page(o)]
    ELSE IF nk = "empty" THEN [data |-> Page(o), next |-> ""]
    ELSE [data |-> Page(o), next |-> "url"]

\* [artist["id"] for artist in data["data"]]
artist_ids(data) == [i \in 1..Len(data) |-> data[i].id]

\* artists.extend(ids)
extend_replace(artists, ids) == ids

extend(artists, ids) == artists \o ids

\* data.get("next") is truthy: the key is present and its value is not empty
continuation_full_page(body) == Len(body.data) = limit

continuation(body) == "next" \in DOMAIN body /\ body.next # ""

\* offset += limit
next_offset_stuck(o) == o

next_offset(o) == o + limit

Statuses == {"ok", "http_error", "exception"}

\* main up to the first page request: check_output_file, then
\* get_favorite_artists up to its loop (check_deezer_user_id)
deezer_main ==
    /\ script = "deezer" /\ pc = "start"
    /\ output_file' = check_output_file(env.OUTPUT_FILE)
    /\ IF check_deezer_user_id(env.DEEZER_USER_ID) # ""
       THEN /\ raised' = "ValueError"
            /\ fetch_status' = "raised"
            /\ pc' = "done"
       ELSE /\ raised' = raised
            /\ fetch_status' = fetch_status
            /\ pc' = "fetch"
    /\ out' = IF ~TruthyStr(env.OUTPUT_FILE)
              THEN Append(out, "OUTPUT_FILE not set. Using default") ELSE out
    /\ items' = <<>>
    /\ offset' = 0
    /\ UNCHANGED <<script, env, upstream, requests, files, pre_files,
                   csv_calls, write_failed>>

\* one iteration of the while loop of get_favorite_artists
get_favorite_artists ==
    /\ script = "deezer" /\ pc = "fetch"
    /\ Len(requests) < MaxPages
    /\ \E status \in Statuses, nk \in NextKinds :
        LET body == Body(offset, nk)
            ok == status = "ok"
            req == [index |-> offset, limit |-> limit, status |-> status,
                    n |-> IF ok THEN Len(body.data) ELSE 0,
                    next |-> IF ok THEN nk ELSE "absent"]
        IN /\ ~ok => nk = "absent"
           /\ requests' = Append(requests, req)
           /\ IF status = "exception"
              THEN \* except RequestException: logging.error, raise
                   /\ out' = Append(out, "Request Error")
                   /\ raised' = "RequestException"
                   /\ fetch_status' = "raised"
                   /\ pc' = "fetched"
                   /\ UNCHANGED <<items, offset>>
              ELSE IF status = "http_error"
              THEN \* not response.ok: logging.error, break, return artists
                   /\ out' = Append(out, "HTTP Error")
                   /\ fetch_status' = "returned"
                   /\ pc' = "fetched"
                   /\ UNCHANGED <<items, offset, raised>>
              ELSE /\ items' = extend(items, artist_ids(body.data))
                   /\ IF ~continuation(body)
                      THEN /\ fetch_status' = "returned"
                           /\ pc' = "fetched"
                           /\ offset' = offset
                      ELSE /\ offset' = next_offset(offset)
                           /\ UNCHANGED <<fetch_status, pc>>
                   /\ UNCHANGED <<out, raised>>
    /\ UNCHANGED <<script, env, upstream, output_file, files, pre_files,
                   csv_calls, write_failed>>

\* writer.writerows([[artist] for artist in data])
output_to_csv_rows(data) == [i \in 1..Len(data) |-> <<data[i]>>]

\* main after get_favorite_artists: the empty test, output_to_csv, the
\* except clauses
deezer_main_output ==
    /\ script = "deezer" /\ pc = "fetched"
    /\ pc' = "done"
    /\ IF fetch_status = "raised"
       THEN \* except requests.exceptions.RequestException: logging.error
            /\ out' = Append(out, "RequestException")
            /\ raised' = ""
            /\ UNCHANGED <<files, csv_calls, write_failed>>
       ELSE IF ~bool_list(items)
       THEN /\ out' = Append(out, "No artist IDs retrieved. Exiting...")
            /\ UNCHANGED <<files, csv_calls, write_failed, raised>>
       ELSE \E outcome \in WriteOutcomes :
             \E k \in PartialLens(output_to_csv_rows(items)) :
               /\ outcome # "OSError" => k = 0
               /\ files' = WriteFile(files, output_file,
                                     output_to_csv_rows(items), outcome, k)
               /\ csv_calls' = Append(csv_calls,
                     [filename |-> output_file, data |-> items,
                      outcome |-> outcome])
               /\ write_failed' = (outcome # "ok")
               /\ out' = IF outcome = "ok"
                         THEN Append(out, "Deezer artist IDs saved")
                         ELSE IF outcome = "FileNotFoundError"
                         THEN out \o <<"File not found", "FileNotFoundError">>
                         ELSE IF outcome = "PermissionError"
                         THEN out \o <<"Permission denied", "PermissionError">>
                         ELSE out
               /\ raised' = IF outcome = "OSError" THEN "OSError" ELSE raised
    /\ UNCHANGED <<script, env, upstream, requests, items, offset,
                   fetch_status, output_file, pre_files>>

----------------------------------------------------------------------------
(* movies/get_movies.py *)

\* the rows write_movies_to_csv writes: the header, then one row per
\* movie of sorted(movies, key=title)
write_movies_to_csv_rows_no_header(movies) ==
    [i \in 1..Len(movies) |->
        <<sorted_by_title(movies)[i].title, sorted_by_title(movies)[i].year,
          sorted_by_title(movies)[i].tmdbId>>]

write_movies_to_csv_rows(movies) ==
    <<MOVIE_HEADER>> \o
    [i \in 1..Len(movies) |->
        <<sorted_by_title(movies)[i].title, sorted_by_title(movies)[i].year,
          sorted_by_title(movies)[i].tmdbId>>]

\* main: the configuration test
movies_main ==
    /\ script = "movies" /\ pc = "start"
    /\ IF TruthyStr(env.API_KEY) /\ TruthyStr(env.BASE_URL)
       THEN pc' = "fetch" /\ out' = out
       ELSE pc' = "done" /\ out' = Append(out, "API key or base URL not found")
    /\ UNCHANGED <<script, env, upstream, requests, items, offset,
                   fetch_status, output_file, files, pre_files, raised,
                   csv_calls, write_failed>>

\* get_movie_list: one GET; every RequestException (a non-2xx status through
\* raise_for_status, a timeout, a connection failure) is printed and
\* turned into []
get_movie_list ==
    /\ script = "movies" /\ pc = "fetch"
    /\ \E status \in Statuses :
        /\ requests' = Append(requests,
              [index |-> -1, limit |-> -1, status |-> status,
               n |-> IF status = "ok" THEN Len(upstream) ELSE 0,
               next |-> "absent"])
        /\ IF status = "ok"
           THEN items' = upstream /\ out' = out
           ELSE items' = <<>> /\ out' = Append(out, "Error")
    /\ fetch_status' = "returned"
    /\ pc' = "fetched"
    /\ UNCHANGED <<script, env, upstream, offset, output_file, files,
                   pre_files, raised, csv_calls, write_failed>>

\* main after get_movie_list: the empty test, then save_movies_to_file
movies_main_save ==
    /\ script = "movies" /\ pc = "fetched"
    /\ IF ~bool_list(items)
       THEN /\ out' = Append(out, "No movies found")
            /\ pc' = "done"
            /\ UNCHANGED <<files, raised, write_failed>>
       ELSE \E outcome \in WriteOutcomes : \E k \in PartialLens(items) :
             /\ outcome # "OSError" => k = 0
             /\ files' = WriteFile(files, MOVIE_JSON, items, outcome, k)
             /\ write_failed' = (outcome # "ok")
             /\ raised' = IF outcome = "ok" THEN raised ELSE outcome
             /\ pc' = IF outcome = "ok" THEN "json_done" ELSE "done"
             /\ out' = IF outcome = "ok"
                       THEN Append(out, "movies exported to JSON") ELSE out
    /\ UNCHANGED <<script, env, upstream, requests, items, offset,
                   fetch_status, output_file, pre_files, csv_calls>>

\* main after save_movies_to_file: write_movies_to_csv
movies_main_csv ==
    /\ script = "movies" /\ pc = "json_done"
    /\ \E outcome \in WriteOutcomes :
        \E k \in PartialLens(write_movies_to_csv_rows(items)) :
          /\ outcome # "OSError" => k = 0
          /\ files' = WriteFile(files, MOVIE_CSV,
                                write_movies_to_csv_rows(items), outcome, k)
          /\ csv_calls' = Append(csv_calls,
                [filename |-> MOVIE_CSV, data |-> items, outcome |-> outcome])
          /\ write_failed' = (outcome # "ok")
          /\ raised' = IF outcome = "ok" THEN raised ELSE outcome
          /\ out' = IF outcome = "ok"
                    THEN Append(out, "movies exported to CSV") ELSE out
    /\ pc' = "done"
    /\ UNCHANGED <<script, env, upstream, requests, items, offset,
                   fetch_status, output_file, pre_files>>

----------------------------------------------------------------------------
(* tvshows/get_tvshows.py *)

\* the rows write_shows_to_csv writes: the header, then one row per
\* show of sorted(shows, key=title)
write_shows_to_csv_rows(shows) ==
    <<SHOW_HEADER>> \o
    [i \in 1..Len(shows) |->
        <<sorted_by_title(shows)[i].title, sorted_by_title(shows)[i].year,
          sorted_by_title(shows)[i].tvdbId>>]

\* main: the configuration test
tvshows_main ==
    /\ script = "tvshows" /\ pc = "start"
    /\ IF TruthyStr(env.API_KEY) /\ TruthyStr(env.BASE_URL)
       THEN pc' = "fetch" /\ out' = out
       ELSE pc' = "done" /\ out' = Append(out, "API key or base URL not found")
    /\ UNCHANGED <<script, env, upstream, requests, items, offset,
                   fetch_status, output_file, files, pre_files, raised,
                   csv_calls, write_failed>>

\* get_show_list: one GET; every RequestException (a non-2xx status through
\* raise_for_status, a timeout, a connection failure) is printed and
\* turned into []
get_show_list ==
    /\ script = "tvshows" /\ pc = "fetch"
    /\ \E status \in Statuses :
        /\ requests' = Append(requests,
              [index |-> -1, limit |-> -1, status |-> status,
               n |-> IF status = "ok" THEN Len(upstream) ELSE 0,
               next |-> "absent"])
        /\ IF status = "ok"
           THEN items' = upstream /\ out' = out
           ELSE items' = <<>> /\ out' = Append(out, "Error")
    /\ fetch_status' = "returned"
    /\ pc' = "fetched"
    /\ UNCHANGED <<script, env, upstream, offset, output_file, files,
                   pre_files, raised, csv_calls, write_failed>>

\* main after get_show_list: the empty test, then save_shows_to_file
tvshows_main_save ==
    /\ script = "tvshows" /\ pc = "fetched"
    /\ IF ~bool_list(items)
       THEN /\ out' = Append(out, "No TV shows found")
            /\ pc' = "done"
            /\ UNCHANGED <<files, raised, write_failed>>
       ELSE \E outcome \in WriteOutcomes : \E k \in PartialLens(items) :
             /\ outcome # "OSError" => k = 0
             /\ files' = WriteFile(files, SHOW_JSON, items, outcome, k)
             /\ write_failed' = (outcome # "ok")
             /\ raised' = IF outcome = "ok" THEN raised ELSE outcome
             /\ pc' = IF outcome = "ok" THEN "json_done" ELSE "done"
             /\ out' = IF outcome = "ok"
                       THEN Append(out, "shows exported to JSON") ELSE out
    /\ UNCHANGED <<script, env, upstream, requests, items, offset,
                   fetch_status, output_file, pre_files, csv_calls>>

\* main after save_shows_to_file: write_shows_to_csv
tvshows_main_csv ==
    /\ script = "tvshows" /\ pc = "json_done"
    /\ \E outcome \in WriteOutcomes :
        \E k \in PartialLens(write_shows_to_csv_rows(items)) :
          /\ outcome # "OSError" => k = 0
          /\ files' = WriteFile(files, SHOW_CSV,
                                write_shows_to_csv_rows(items), outcome, k)
          /\ csv_calls' = Append(csv_calls,
                [filename |-> SHOW_CSV, data |-> items, outcome |-> outcome])
          /\ write_failed' = (outcome # "ok")
          /\ raised' = IF outcome = "ok" THEN raised ELSE outcome
          /\ out' = IF outcome = "ok"
                    THEN Append(out, "shows exported to CSV") ELSE out
    /\ pc' = "done"
    /\ UNCHANGED <<script, env, upstream, requests, items, offset,
                   fetch_status, output_file, pre_files>>

----------------------------------------------------------------------------
Next ==
    \/ movies_main
    \/ get_movie_list
    \/ movies_main_save
    \/ movies_main_csv
    \/ tvshows_main
    \/ get_show_list
    \/ tvshows_main_save
    \/ tvshows_main_csv
    \/ deezer_main
    \/ get_favorite_artists
    \/ deezer_main_output

Spec == Init /\ [][Next]_vars

----------------------------------------------------------------------------
(* Properties of get_favorite_artists *)

CeilDiv(n, p) == (n + p - 1) \div p

\* every page request so far succeeded and the upstream announced a next
\* page exactly when items remain behind the page it served
FaithfulUpstream ==
    \A k \in 1..Len(requests) :
        /\ requests[k].status = "ok"
        /\ (requests[k].next = "url") <=>
               (requests[k].index + requests[k].limit < Len(upstream))

FetchReturnedAll ==
    /\ Len(items) = Len(upstream)
    /\ \A k \in 1..Len(upstream) : items[k] = upstream[k].id

\* C1 as stated: against an upstream of N items served in pages of 25, all
\* requests succeeding, get_favorite_artists returns exactly the N ids in
\* upstream order and issues exactly ceil(N/25) requests, for every N >= 0.
C1_Original ==
    (script = "deezer" /\ fetch_status = "returned" /\ FaithfulUpstream)
        => /\ FetchReturnedAll
           /\ Len(requests) = CeilDiv(Len(upstream), 25)

\* C1 amended: the returned list is exactly the N upstream ids in upstream
\* order, and the number of requests is ceil(N/25) for N >= 1 and one for
\* N = 0 (the empty collection still costs the first request).
C1_Pagination ==
    (script = "deezer" /\ fetch_status = "returned" /\ FaithfulUpstream)
        => /\ FetchReturnedAll
           /\ Len(requests) = IF Len(upstream) = 0 THEN 1
                              ELSE CeilDiv(Len(upstream), 25)

C1_Witness ==
    /\ script = "deezer" /\ fetch_status = "returned" /\ FaithfulUpstream
    /\ Len(upstream) = 30 /\ Len(requests) = 2 /\ Len(items) = 30

\* C2: in the Deezer pipeline, once a page request got a non-2xx status
\* nothing is persisted: output_to_csv is never invoked and the output file
\* keeps its contents of before the run.
C2_NoPartialPersist ==
    (script = "deezer" /\ \E k \in 1..Len(requests) :
                             requests[k].status = "http_error")
        => csv_calls = <<>> /\ files = pre_files

\* C5: a successful page whose "next" is absent or empty is the last
\* request of the run: its items end the returned list and the fetcher has
\* returned, whatever the number of items on that page.
C5_StopsWithoutNext ==
    script = "deezer" =>
        \A k \in 1..Len(requests) :
            (requests[k].status = "ok" /\ requests[k].next \in {"absent", "empty"})
                => /\ k = Len(requests)
                   /\ fetch_status = "returned"
                   /\ pc \in {"fetched", "done"}
                   /\ Len(items) >= requests[k].n
                   /\ \A j \in 1..requests[k].n :
                          items[Len(items) - requests[k].n + j]
                              = upstream[requests[k].index + j].id

C5_Witness ==
    /\ script = "deezer" /\ pc = "done"
    /\ Len(requests) = 1
    /\ requests[1].status = "ok" /\ requests[1].next = "absent"
    /\ requests[1].n = 25 /\ Len(upstream) > 25
    /\ Len(items) = 25

\* C10: the k-th request carries index 25*(k-1) and limit 25, the offset is
\* 25 times the number of successful pages that announced a next page, and
\* no index is requested twice.
C10_Offsets ==
    script = "deezer" =>
        /\ \A k \in 1..Len(requests) :
              requests[k].index = 25 * (k - 1) /\ requests[k].limit = 25
        /\ offset = 25 * Cardinality({k \in 1..Len(requests) :
                          requests[k].status = "ok" /\ requests[k].next = "url"})
        /\ \A j, k \in 1..Len(requests) :
              j # k => requests[j].index # requests[k].index

C10_Witness ==
    /\ script = "deezer" /\ Len(requests) = 3
    /\ requests[3].index = 50 /\ offset = 50

----------------------------------------------------------------------------
(* Properties of the pipelines *)

\* C3: in every fetcher a network failure leaves the fetcher by an
\* exception, never by a returned list.
C3_NetworkFailurePropagates ==
    (fetch_status # "none" /\ \E k \in 1..Len(requests) :
                                 requests[k].status = "exception")
        => fetch_status = "raised"

\* C4: when a file write of the run failed, every export file holds its
\* contents of before the run.
C4_FailedWriteLeavesFiles ==
    write_failed => files = pre_files

\* the configuration is in error: API key or base URL missing or empty, or
\* DEEZER_USER_ID missing, empty or holding a character that is no digit
ConfigError ==
    IF script = "deezer"
    THEN \/ ~env.DEEZER_USER_ID.isset
         \/ env.DEEZER_USER_ID.val = <<>>
         \/ \E i \in 1..Len(env.DEEZER_USER_ID.val) :
               env.DEEZER_USER_ID.val[i] \notin Digits
    ELSE \/ ~env.API_KEY.isset \/ env.API_KEY.val = ""
         \/ ~env.BASE_URL.isset \/ env.BASE_URL.val = ""

\* C6: under a configuration error no HTTP request is ever issued and no
\* output file is written; the run goes from its start straight to its end.
C6_ConfigErrorNoNetwork ==
    ConfigError =>
        /\ requests = <<>>
        /\ files = pre_files /\ csv_calls = <<>> /\ ~write_failed
        /\ pc \in {"start", "done"}

C6_Witness ==
    /\ script = "deezer" /\ pc = "done" /\ raised = "ValueError"
    /\ env.DEEZER_USER_ID.isset /\ Len(env.DEEZER_USER_ID.val) = 2
    /\ env.DEEZER_USER_ID.val[1] \in Digits
    /\ requests = <<>>

CsvFile == IF script = "movies" THEN MOVIE_CSV ELSE SHOW_CSV

ItemId(x) == IF script = "movies" THEN x.tmdbId ELSE x.tvdbId

CsvWritten ==
    /\ Len(csv_calls) = 1
    /\ csv_calls[1].outcome = "ok"

\* C7: the data rows of the movie / show CSV are a permutation of the
\* input items, ascending by title, and items of equal title keep their
\* input order (item k of the input carries id k).
C7_SortedStable ==
    (script \in {"movies", "tvshows"} /\ CsvWritten) =>
        LET rows == Tail(files[CsvFile].rows)
            data == csv_calls[1].data
        IN /\ Len(rows) = Len(data)
           /\ \A i \in 1..Len(data) :
                 Cardinality({j \in 1..Len(rows) :
                     rows[j] = <<data[i].title, data[i].year, ItemId(data[i])>>}) = 1
           /\ \A i, j \in 1..Len(rows) :
                 i < j => /\ ~StrLess(rows[j][1], rows[i][1])
                          /\ rows[i][1] = rows[j][1] => rows[i][3] < rows[j][3]

C7_Witness ==
    /\ script = "movies" /\ CsvWritten /\ Len(items) = 3
    /\ items[1].title = <<97>> /\ items[2].title = <<65>>
    /\ items[3].title = <<97>>
    /\ files[MOVIE_CSV].rows[2][3] = 2
    /\ files[MOVIE_CSV].rows[3][3] = 1

ExportMessages ==
    {"movies exported to JSON", "movies exported to CSV",
     "shows exported to JSON", "shows exported to CSV",
     "Deezer artist IDs saved"}

NoItemsMessages ==
    {"No movies found", "No TV shows found",
     "No artist IDs retrieved. Exiting...", "RequestException"}

\* the fetcher returned the empty list, or a request of it raised
FetchEmptyOrFailed ==
    \/ fetch_status = "returned" /\ Len(items) = 0
    \/ fetch_status = "raised" /\ Len(requests) > 0

\* C9: when the fetch ends with an empty list or fails, no output file is
\* opened or changed, no exported-count message is printed, and the run
\* ends with the no-items message or the logged error.
C9_EmptyFetchWritesNothing ==
    FetchEmptyOrFailed =>
        /\ files = pre_files /\ csv_calls = <<>> /\ ~write_failed
        /\ \A i \in 1..Len(out) : out[i] \notin ExportMessages
        /\ pc \in {"fetched", "done"}
        /\ pc = "done" => \E i \in 1..Len(out) : out[i] \in NoItemsMessages

C9_Witness ==
    /\ script = "movies" /\ pc = "done"
    /\ Len(requests) = 1 /\ requests[1].status = "ok"
    /\ Len(upstream) = 0
    /\ pre_files[MOVIE_JSON].exists

====
